---- MODULE Spec2Model ----
(***************************************************************************)
(* rcalc: the precedence-climbing parser of src/parsemath/parser.rs over   *)
(* the tokens and precedence levels of src/parsemath/token.rs.             *)
(*                                                                         *)
(* The parser pulls tokens one at a time from a tokenizer.  What the       *)
(* parser can observe of a tokenizer is a finite sequence of tokens        *)
(* followed by "no further token" (None): the parser gives up at the       *)
(* first None and never asks again.  The tokenizer is therefore modelled   *)
(* as that sequence (stream) and a read position.                          *)
(***************************************************************************)
EXTENDS Integers, Sequences, FiniteSets, TLC

\* ------------------------------------------------------------------ bounds

\* Longest token stream of the unrestricted specification Spec.
MaxLen == 4
\* Numbers carried by Num tokens are 1..MaxNum.
MaxNum == 2
\* Most binary operators in a parenthesis-free expression of SpecFlat.
MaxOps == 2
\* Most adjacent parenthesised groups in an expression of SpecParen.
MaxGroups == 3

\* ------------------------------------------------------------------ tokens

\* token.rs, enum Token.  Every token is a record of the same shape, so that
\* any two tokens can be compared; val is meaningful for Num only.
Tok(k) == [kind |-> k, val |-> 0]
Num(v) == [kind |-> "Num", val |-> v]
Add == Tok("Add")
Substract == Tok("Substract")
Multiply == Tok("Multiply")
Divide == Tok("Divide")
Caret == Tok("Caret")
LeftParen == Tok("LeftParen")
RightParen == Tok("RightParen")
EOF == Tok("EOF")
\* The content of current_token before a Parser exists.
NoToken == Tok("None")

NumTokens == {Num(v) : v \in 1..MaxNum}
BinOps == {Add, Substract, Multiply, Divide, Caret}
Token == BinOps \cup {LeftParen, RightParen, EOF} \cup NumTokens

\* token.rs, enum OperPrec, lowest to highest (derive(PartialOrd)).
DefaultZero == 0
AddSub == 1
MulDiv == 2
Power == 3
Negative == 4

\* Variant: * and / on the level of + and -.
get_oper_prec_flat(t) ==
  IF t.kind \in {"Add", "Substract", "Multiply", "Divide"} THEN AddSub
  ELSE IF t.kind = "Caret" THEN Power
  ELSE DefaultZero

\* Token::get_oper_prec
get_oper_prec(t) ==
  IF t.kind \in {"Add", "Substract"} THEN AddSub
  ELSE IF t.kind \in {"Multiply", "Divide"} THEN MulDiv
  ELSE IF t.kind = "Caret" THEN Power
  ELSE DefaultZero

\* ------------------------------------------------------------------- nodes

\* ast.rs, enum Node, as the parser constructs it.
NoNode == [kind |-> "NoNode", val |-> 0]
Number(v) == [kind |-> "Number", val |-> v]
Neg(e) == [kind |-> "Negative", child |-> e]
Bin(k, l, r) == [kind |-> k, left |-> l, right |-> r]

BinKinds == {"Add", "Subtract", "Multiply", "Divide", "Caret"}

\* ------------------------------------------------------------- ParseErr

\* parser.rs, enum ParseErr with its message; got is the token the message
\* names (NoToken when it names none).
NoErr == [kind |-> "none", msg |-> "", got |-> NoToken]
UnableToParse(m) == [kind |-> "UnableToParse", msg |-> m, got |-> NoToken]
InvalidOperator(m, t) == [kind |-> "InvalidOperator", msg |-> m, got |-> t]

\* Result<Node, ParseErr> and Result<(), ParseErr> (node = NoNode).
Ok(n) == [ok |-> TRUE, err |-> NoErr, node |-> n]
Err(e) == [ok |-> FALSE, err |-> e, node |-> NoNode]

\* --------------------------------------------------------------- tokenizer

\* Tokenizer::new: the tokens the expression yields, none read yet.
Tokenizer_new(s) == [stream |-> s, pos |-> 1]

\* Tokenizer::next (Iterator): the next token, or none when exhausted.
Tokenizer_next(tk) ==
  IF tk.pos <= Len(tk.stream)
  THEN [some |-> TRUE, token |-> tk.stream[tk.pos],
        tokenizer |-> [tk EXCEPT !.pos = @ + 1]]
  ELSE [some |-> FALSE, token |-> NoToken, tokenizer |-> tk]

\* ------------------------------------------------------------------ parser

\* struct Parser { tokenizer, current_token }
MkParser(tk, t) == [tokenizer |-> tk, current_token |-> t]

\* What a private method returns: its Result and the parser it leaves.
Ret(r, p) == [res |-> r, p |-> p]

\* Variant: an exhausted tokenizer read as an EOF token.
get_next_token_eof(p) ==
  LET n == Tokenizer_next(p.tokenizer) IN
  IF n.some
  THEN Ret(Ok(NoNode), MkParser(n.tokenizer, n.token))
  ELSE Ret(Ok(NoNode), MkParser(n.tokenizer, EOF))

\* Parser::get_next_token
get_next_token(p) ==
  LET n == Tokenizer_next(p.tokenizer) IN
  IF n.some
  THEN Ret(Ok(NoNode), MkParser(n.tokenizer, n.token))
  ELSE Ret(Err(InvalidOperator("Invalid character", NoToken)),
           MkParser(n.tokenizer, p.current_token))

\* Variant: the current token is skipped whatever it is.
check_paren_lenient(p, expected) ==
  LET g == get_next_token(p) IN
  IF g.res.ok THEN Ret(Ok(NoNode), g.p) ELSE g

\* Parser::check_paren
check_paren(p, expected) ==
  IF expected = p.current_token
  THEN LET g == get_next_token(p) IN
       IF g.res.ok THEN Ret(Ok(NoNode), g.p) ELSE g
  ELSE Ret(Err(InvalidOperator("Expected", p.current_token)), p)

RECURSIVE generate_ast(_, _)
RECURSIVE ast_loop(_, _, _)
RECURSIVE parse_number(_)
RECURSIVE convert_token_to_node(_, _)

\* The operand of a binary operator: get_next_token()?, then
\* generate_ast(prec)?, then the node (each arm of convert_token_to_node).
binary(p, left_expr, kind, prec) ==
  LET g == get_next_token(p) IN
  IF ~g.res.ok THEN g
  ELSE LET r == generate_ast(g.p, prec) IN
       IF ~r.res.ok THEN r
       ELSE Ret(Ok(Bin(kind, left_expr, r.res.node)), r.p)

\* Parser::convert_token_to_node
convert_token_to_node(p, left_expr) ==
  LET k == p.current_token.kind IN
  IF k = "Add" THEN binary(p, left_expr, "Add", AddSub)
  ELSE IF k = "Substract" THEN binary(p, left_expr, "Subtract", AddSub)
  ELSE IF k = "Multiply" THEN binary(p, left_expr, "Multiply", MulDiv)
  ELSE IF k = "Divide" THEN binary(p, left_expr, "Divide", MulDiv)
  ELSE IF k = "Caret" THEN binary(p, left_expr, "Caret", Power)
  ELSE Ret(Err(InvalidOperator("Please enter valid operator",
                               p.current_token)), p)

\* Parser::parse_number, arm Token::Substract
parse_negative(p, prec) ==
  LET g == get_next_token(p) IN
  IF ~g.res.ok THEN g
  ELSE LET r == generate_ast(g.p, prec) IN
       IF ~r.res.ok THEN r
       ELSE Ret(Ok(Neg(r.res.node)), r.p)

\* Parser::parse_number, arm Token::Num
parse_num(p) ==
  LET g == get_next_token(p) IN
  IF ~g.res.ok THEN g
  ELSE Ret(Ok(Number(p.current_token.val)), g.p)

\* Parser::parse_number, arm Token::LeftParen; implicit says whether a
\* LeftParen after the group multiplies, prec is the level of its right side.
parse_paren(p, implicit, prec) ==
  LET g == get_next_token(p) IN
  IF ~g.res.ok THEN g
  ELSE LET e == generate_ast(g.p, DefaultZero) IN
       IF ~e.res.ok THEN e
       ELSE LET c == check_paren(e.p, RightParen) IN
            IF ~c.res.ok THEN c
            ELSE IF implicit /\ c.p.current_token = LeftParen
                 THEN LET r == generate_ast(c.p, prec) IN
                      IF ~r.res.ok THEN r
                      ELSE Ret(Ok(Bin("Multiply", e.res.node, r.res.node)),
                               r.p)
                 ELSE Ret(Ok(e.res.node), c.p)

\* Variant: a leading + accepted as a sign.
parse_number_unary_plus(p) ==
  LET k == p.current_token.kind IN
  IF k = "Substract" THEN parse_negative(p, Negative)
  ELSE IF k = "Num" THEN parse_num(p)
  ELSE IF k = "LeftParen" THEN parse_paren(p, TRUE, MulDiv)
  ELSE IF k = "Add"
       THEN LET g == get_next_token(p) IN
            IF ~g.res.ok THEN g ELSE generate_ast(g.p, Negative)
  ELSE Ret(Err(UnableToParse("Unable to parse")), p)

\* Variant: the operand of unary minus parsed at the lowest level.
parse_number_loose_minus(p) ==
  LET k == p.current_token.kind IN
  IF k = "Substract" THEN parse_negative(p, DefaultZero)
  ELSE IF k = "Num" THEN parse_num(p)
  ELSE IF k = "LeftParen" THEN parse_paren(p, TRUE, MulDiv)
  ELSE Ret(Err(UnableToParse("Unable to parse")), p)

\* Variant: the right side of an implicit product parsed at the lowest level.
parse_number_loose_product(p) ==
  LET k == p.current_token.kind IN
  IF k = "Substract" THEN parse_negative(p, Negative)
  ELSE IF k = "Num" THEN parse_num(p)
  ELSE IF k = "LeftParen" THEN parse_paren(p, TRUE, DefaultZero)
  ELSE Ret(Err(UnableToParse("Unable to parse")), p)

\* Variant: no implicit multiplication.
parse_number_no_product(p) ==
  LET k == p.current_token.kind IN
  IF k = "Substract" THEN parse_negative(p, Negative)
  ELSE IF k = "Num" THEN parse_num(p)
  ELSE IF k = "LeftParen" THEN parse_paren(p, FALSE, MulDiv)
  ELSE Ret(Err(UnableToParse("Unable to parse")), p)

\* Parser::parse_number
parse_number(p) ==
  LET k == p.current_token.kind IN
  IF k = "Substract" THEN parse_negative(p, Negative)
  ELSE IF k = "Num" THEN parse_num(p)
  ELSE IF k = "LeftParen" THEN parse_paren(p, TRUE, MulDiv)
  ELSE Ret(Err(UnableToParse("Unable to parse")), p)

\* Parser::generate_ast, the while loop with left_expr as built so far
ast_loop(p, oper_prec, left_expr) ==
  IF oper_prec < get_oper_prec(p.current_token)
  THEN IF p.current_token = EOF
       THEN Ret(Ok(left_expr), p)
       ELSE LET c == convert_token_to_node(p, left_expr) IN
            IF ~c.res.ok THEN c
            ELSE ast_loop(c.p, oper_prec, c.res.node)
  ELSE Ret(Ok(left_expr), p)

\* Parser::generate_ast
generate_ast(p, oper_prec) ==
  LET n == parse_number(p) IN
  IF ~n.res.ok THEN n
  ELSE ast_loop(n.p, oper_prec, n.res.node)

\* Variant: a tokenizer without a first token read as an EOF token.
Parser_new_eof(s) ==
  LET n == Tokenizer_next(Tokenizer_new(s)) IN
  IF n.some
  THEN Ret(Ok(NoNode), MkParser(n.tokenizer, n.token))
  ELSE Ret(Ok(NoNode), MkParser(n.tokenizer, EOF))

\* Parser::new: Ok(Parser) or Err; p is the Parser when Ok.
Parser_new(s) ==
  LET n == Tokenizer_next(Tokenizer_new(s)) IN
  IF n.some
  THEN Ret(Ok(NoNode), MkParser(n.tokenizer, n.token))
  ELSE Ret(Err(InvalidOperator("Invalid character", NoToken)),
           MkParser(n.tokenizer, NoToken))

\* Variant: a token left over after the expression is an error.
Parser_parse_strict(p) ==
  LET r == generate_ast(p, DefaultZero) IN
  IF r.res.ok /\ r.p.current_token # EOF
  THEN Ret(Err(InvalidOperator("Please enter valid operator",
                               r.p.current_token)), r.p)
  ELSE r

\* Parser::parse
Parser_parse(p) == generate_ast(p, DefaultZero)

\* new followed by parse, as a caller runs them on the tokens s.
ParseStream(s) ==
  LET n == Parser_new(s) IN
  IF n.res.ok THEN Parser_parse(n.p) ELSE n

\* ------------------------------------------------------------ state machine

VARIABLES
  tokenizer,      \* Parser.tokenizer: the stream and the read position
  current_token,  \* Parser.current_token
  pc,             \* "start", then "ready" | "failed" (new), then "parsed"
  result          \* what the last public call returned

vars == <<tokenizer, current_token, pc, result>>

\* All token sequences of length at most n.
Streams(n) == UNION {[1..k -> Token] : k \in 0..n}

\* The expressions the specification names, as the tokens they yield when
\* the end of the input is delivered as an EOF token.
Examples ==
  { <<LeftParen, Num(1), Add, Num(2), EOF>>,
    <<Num(1), Add, Num(2), RightParen, EOF>>,
    <<Num(1), Add, Multiply, Num(2), EOF>> }

\* Before new: a tokenizer over the tokens s, and no parser yet.
InitOn(s) ==
  /\ tokenizer = Tokenizer_new(s)
  /\ current_token = NoToken
  /\ pc = "start"
  /\ result = Ok(NoNode)

Init == \E s \in Streams(MaxLen) \cup Examples : InitOn(s)

\* A caller constructs the parser.
New ==
  /\ pc = "start"
  /\ LET n == Parser_new(tokenizer.stream) IN
     /\ tokenizer' = n.p.tokenizer
     /\ current_token' = n.p.current_token
     /\ result' = n.res
     /\ pc' = IF n.res.ok THEN "ready" ELSE "failed"

\* The caller parses with the parser it constructed.
Parse ==
  /\ pc = "ready"
  /\ LET r == Parser_parse(MkParser(tokenizer, current_token)) IN
     /\ tokenizer' = r.p.tokenizer
     /\ current_token' = r.p.current_token
     /\ result' = r.res
     /\ pc' = "parsed"

Next == New \/ Parse

Spec == Init /\ [][Next]_vars

\* ------------------------------------------------- well-formed expressions

\* An operand of a parenthesis-free expression: n, or -n when neg.
Operand(n, neg) == IF neg THEN <<Substract, n>> ELSE <<n>>

RECURSIVE FlatBody(_, _, _, _)
\* Operand (op Operand)^k: operand i is nums[i], negated when negs[i], and
\* ops[i] stands between operands i and i + 1.
FlatBody(k, nums, negs, ops) ==
  IF k = 0 THEN Operand(nums[1], negs[1])
  ELSE FlatBody(k - 1, nums, negs, ops) \o <<ops[k]>>
         \o Operand(nums[k + 1], negs[k + 1])

\* What stands between the parentheses of a group: n or 1+n.
GroupBodies ==
  {<<n>> : n \in NumTokens} \cup {<<Num(1), Add, n>> : n \in NumTokens}

Group(b) == <<LeftParen>> \o b \o <<RightParen>>

RECURSIVE Groups(_, _)
\* k adjacent groups, group i around bodies[i].
Groups(k, bodies) ==
  IF k = 0 THEN << >> ELSE Groups(k - 1, bodies) \o Group(bodies[k])

Prefixes == {<< >>, <<Substract>>} \cup {<<Num(1), op>> : op \in BinOps}
Suffixes == {<< >>} \cup {<<op, Num(1)>> : op \in BinOps}

\* Parenthesis-free expressions of at most MaxOps operators, ended by EOF.
InitFlat ==
  \E k \in 0..MaxOps :
    \E nums \in [1..(k + 1) -> NumTokens], negs \in [1..(k + 1) -> BOOLEAN],
       ops \in [1..k -> BinOps] :
      InitOn(FlatBody(k, nums, negs, ops) \o <<EOF>>)

\* [1 op | -] (..)(..).. [op 1] of at most MaxGroups groups, ended by EOF.
InitParen ==
  \E k \in 1..MaxGroups :
    \E bodies \in [1..k -> GroupBodies], pre \in Prefixes, suf \in Suffixes :
      InitOn(pre \o Groups(k, bodies) \o suf \o <<EOF>>)

\* The parser on parenthesis-free expressions.
SpecFlat == InitFlat /\ [][Next]_vars
\* The parser on adjacent parenthesised groups.
SpecParen == InitParen /\ [][Next]_vars

\* ------------------------------------------------------ reference notions

stream == tokenizer.stream
\* The expression without its closing EOF.
Body == SubSeq(stream, 1, Len(stream) - 1)

\* The node kind a binary operator token builds.
NodeKind(op) == IF op = Substract THEN "Subtract" ELSE op.kind

RECURSIVE WellFormed(_)
\* Every operand of every node is present.
WellFormed(n) ==
  IF n.kind = "Number" THEN TRUE
  ELSE IF n.kind = "Negative" THEN WellFormed(n.child)
  ELSE IF n.kind \in BinKinds THEN WellFormed(n.left) /\ WellFormed(n.right)
  ELSE FALSE

RECURSIVE LeftMost(_)
\* The operand a tree starts with: down the left operands of binary nodes.
LeftMost(n) == IF n.kind \in BinKinds THEN LeftMost(n.left) ELSE n

RECURSIVE NegWrapsNumber(_)
\* Every Negative node of the tree wraps a Number.
NegWrapsNumber(n) ==
  IF n.kind = "Negative" THEN n.child.kind = "Number"
  ELSE IF n.kind \in BinKinds
       THEN NegWrapsNumber(n.left) /\ NegWrapsNumber(n.right)
  ELSE TRUE

\* n (op n)* with op among + - * /
PlainFlat(b) ==
  /\ Len(b) % 2 = 1
  /\ \A i \in 1..Len(b) :
       IF i % 2 = 1 THEN b[i].kind = "Num"
       ELSE b[i] \in {Add, Substract, Multiply, Divide}

RECURSIVE StdTerm(_)
\* The standard grammar's term n (* n | / n)*, grouped left to right.
StdTerm(b) ==
  IF Len(b) = 1 THEN Number(b[1].val)
  ELSE Bin(NodeKind(b[Len(b) - 1]), StdTerm(SubSeq(b, 1, Len(b) - 2)),
           Number(b[Len(b)].val))

RECURSIVE StdExpr(_)
\* The standard grammar's expression term (+ term | - term)*, grouped left
\* to right: split at the last additive operator.
StdExpr(b) ==
  LET adds == {i \in 1..Len(b) : b[i] \in {Add, Substract}} IN
  IF adds = {} THEN StdTerm(b)
  ELSE LET i == CHOOSE j \in adds : \A m \in adds : m <= j IN
       Bin(NodeKind(b[i]), StdExpr(SubSeq(b, 1, i - 1)),
           StdTerm(SubSeq(b, i + 1, Len(b))))

\* The tree of a group's content.
BodyAst(b) ==
  IF Len(b) = 1 THEN Number(b[1].val)
  ELSE Bin("Add", Number(b[1].val), Number(b[3].val))

\* The tokens e are one complete expression: followed by EOF they parse,
\* and the parse stops at that EOF.
Complete(e) ==
  LET r == ParseStream(e \o <<EOF>>) IN
  /\ r.res.ok
  /\ r.p.tokenizer.pos = Len(e) + 2

\* The parser asks parse_number for an operand at token i of s: with an EOF
\* in its place the parse fails there for want of an operand.
ReachesOperandAt(s, i) ==
  LET r == ParseStream(SubSeq(s, 1, i - 1) \o <<EOF>>) IN
  /\ ~r.res.ok
  /\ r.res.err.kind = "UnableToParse"
  /\ r.p.tokenizer.pos = i + 1

\* The parser just after it consumed token i of s (i < Len(s)).
After(s, i) == MkParser([stream |-> s, pos |-> i + 2], s[i + 1])

\* ------------------------------------------------------------------ claims

\* C1 (as the specification states it): ^ is right-associative; the tokens
\* a ^ b ^ c parse as Caret(a, Caret(b, c)).
C1_CaretRightAssociative ==
  pc = "parsed" =>
    \A a, b, c \in NumTokens :
      stream = <<a, Caret, b, Caret, c, EOF>> =>
        result = Ok(Bin("Caret", Number(a.val),
                        Bin("Caret", Number(b.val), Number(c.val))))

\* C2 (as the specification states it): a parse that stops at a current
\* token other than EOF returns Err, never Ok.
C2_TrailingTokenIsError ==
  (pc = "parsed" /\ current_token # EOF) => ~result.ok

\* C2 (amended): trailing tokens are ignored.  When a complete expression
\* is followed by a Num or RightParen token, or by a LeftParen that does not
\* directly follow a closing parenthesis, parse returns Ok with the tree of
\* the expression and leaves the trailing token as the current token.
C2_TrailingTokenIgnored ==
  pc = "parsed" =>
    \A k \in 2..Len(stream) :
      LET e == SubSeq(stream, 1, k - 1)
          t == stream[k] IN
      ( /\ Complete(e)
        /\ t # EOF
        /\ get_oper_prec(t) = DefaultZero
        /\ (t = LeftParen => e[Len(e)] # RightParen) )
      => /\ result = Ok(ParseStream(e \o <<EOF>>).res.node)
         /\ current_token = t
         /\ tokenizer.pos = k + 1

\* "2+3)": parsed to Add(2, 3) with the closing parenthesis left over.
C2_Witness ==
  /\ pc = "parsed"
  /\ stream = <<Num(1), Add, Num(2), RightParen, EOF>>
  /\ result = Ok(Bin("Add", Number(1), Number(2)))
  /\ current_token = RightParen

\* C3: when the tokenizer produces no token, Parser::new fails with
\* InvalidOperator, no Parser exists and parse never runs.
C3_NewFailsWithoutToken ==
  (pc # "start" /\ stream = << >>) =>
    /\ pc = "failed"
    /\ result = Err(InvalidOperator("Invalid character", NoToken))
    /\ current_token = NoToken

C3_Witness == pc = "failed" /\ stream = << >> /\ ~result.ok

\* C4: numbers separated by + - * / parse to the tree of the standard
\* grammar: * and / bind tighter than + and -, equal levels group left to
\* right.
C4_StandardGrammar ==
  (pc = "parsed" /\ PlainFlat(Body)) =>
    /\ result = Ok(StdExpr(Body))
    /\ current_token = EOF

\* a - b * c - a: the product is the right operand of the first minus, the
\* two minus group to the left.
C4_Witness ==
  /\ pc = "parsed"
  /\ stream = <<Num(1), Substract, Num(2), Multiply, Num(1), EOF>>
  /\ result = Ok(Bin("Subtract", Number(1),
                     Bin("Multiply", Number(2), Number(1))))

\* C5: a unary minus followed by a number n and a binary operator wraps n
\* alone, and Negative(n) is what the expression's tree starts with; no
\* Negative node of a parenthesis-free expression wraps more than a number.
C5_UnaryMinusBindsTightest ==
  pc = "parsed" =>
    /\ result.ok
    /\ NegWrapsNumber(result.node)
    /\ (stream[1] = Substract /\ stream[3] \in BinOps) =>
         LeftMost(result.node) = Neg(Number(stream[2].val))
    /\ \A n, m \in NumTokens : \A op \in BinOps :
         stream = <<Substract, n, op, m, EOF>> =>
           result = Ok(Bin(NodeKind(op), Neg(Number(n.val)), Number(m.val)))

\* "-2^2" is Caret(Negative(2), 2).
C5_Witness ==
  /\ pc = "parsed"
  /\ stream = <<Substract, Num(2), Caret, Num(2), EOF>>
  /\ result = Ok(Bin("Caret", Neg(Number(2)), Number(2)))

\* C6: a group followed by a LeftParen is the left side of a Multiply whose
\* right side is what follows, parsed at MulDiv level (so a following ^
\* belongs to the right side, a following + - * / does not); a group not
\* followed by a LeftParen is returned unchanged.
C6_ImplicitMultiplication ==
  (pc = "parsed" /\ stream[1] = LeftParen) =>
    \A b1 \in GroupBodies :
      /\ stream = Group(b1) \o <<EOF>> => result = Ok(BodyAst(b1))
      /\ \A op \in BinOps :
           stream = Group(b1) \o <<op, Num(1), EOF>> =>
             result = Ok(Bin(NodeKind(op), BodyAst(b1), Number(1)))
      /\ \A b2 \in GroupBodies :
           /\ stream = Group(b1) \o Group(b2) \o <<EOF>> =>
                result = Ok(Bin("Multiply", BodyAst(b1), BodyAst(b2)))
           /\ stream = Group(b1) \o Group(b2) \o <<Caret, Num(1), EOF>> =>
                result = Ok(Bin("Multiply", BodyAst(b1),
                                Bin("Caret", BodyAst(b2), Number(1))))
           /\ \A op \in BinOps \ {Caret} :
                stream = Group(b1) \o Group(b2) \o <<op, Num(1), EOF>> =>
                  result = Ok(Bin(NodeKind(op),
                                  Bin("Multiply", BodyAst(b1), BodyAst(b2)),
                                  Number(1)))

\* "(1+1)(1+2)" is Multiply(Add(1, 1), Add(1, 2)).
C6_Witness ==
  /\ pc = "parsed"
  /\ stream = Group(<<Num(1), Add, Num(1)>>) \o Group(<<Num(1), Add, Num(2)>>)
                \o <<EOF>>
  /\ result = Ok(Bin("Multiply", Bin("Add", Number(1), Number(1)),
                     Bin("Add", Number(1), Number(2))))

\* C7: when the sub-expression of a LeftParen is followed by a token other
\* than RightParen, parse fails with InvalidOperator and check_paren leaves
\* the parser on that token; check_paren advances past a RightParen.  An
\* input that ends inside the parentheses fails with InvalidOperator too.
C7_UnclosedParenFails ==
  pc = "parsed" =>
    \A i \in 1..Len(stream) :
      (stream[i] = LeftParen /\ ReachesOperandAt(stream, i)) =>
        IF i = Len(stream)
        THEN ~result.ok /\ result.err.kind = "InvalidOperator"
        ELSE LET inner == generate_ast(After(stream, i), DefaultZero)
                 c == check_paren(inner.p, RightParen) IN
             /\ (inner.res.ok /\ inner.p.current_token # RightParen) =>
                  /\ result = Err(InvalidOperator("Expected",
                                                  inner.p.current_token))
                  /\ current_token = inner.p.current_token
                  /\ tokenizer = inner.p.tokenizer
             /\ (~inner.res.ok /\ inner.res.err.msg = "Invalid character") =>
                  result = inner.res
             /\ ( /\ inner.res.ok
                  /\ inner.p.current_token = RightParen
                  /\ inner.p.tokenizer.pos <= Len(stream) ) =>
                  /\ c.res.ok
                  /\ c.p.tokenizer.pos = inner.p.tokenizer.pos + 1
                  /\ c.p.current_token = stream[inner.p.tokenizer.pos]

\* "(1+2": the EOF stands where the closing parenthesis should.
C7_Witness ==
  /\ pc = "parsed"
  /\ stream = <<LeftParen, Num(1), Add, Num(2), EOF>>
  /\ result = Err(InvalidOperator("Expected", EOF))
  /\ current_token = EOF

\* A token that cannot start an operand.
NoOperand(t) == t.kind \notin {"Substract", "Num", "LeftParen"}

\* C8: where an operand is due and the current token is not Substract, Num
\* or LeftParen, parse returns Err(UnableToParse) with the parser left on
\* that token; an Ok result is a tree with every operand present and an Err
\* carries no tree.
C8_NoMissingOperand ==
  pc = "parsed" =>
    /\ result.ok => WellFormed(result.node)
    /\ ~result.ok => result.node = NoNode
    /\ \A i \in 1..Len(stream) :
         (ReachesOperandAt(stream, i) /\ NoOperand(stream[i])) =>
           /\ result = Err(UnableToParse("Unable to parse"))
           /\ current_token = stream[i]
           /\ tokenizer.pos = i + 1
    /\ (Len(stream) >= 3 /\ stream[1].kind = "Num" /\ stream[2] \in BinOps
          /\ NoOperand(stream[3])) =>
         result = Err(UnableToParse("Unable to parse"))
    /\ (Len(stream) >= 2 /\ stream[1] \in {LeftParen, Substract}
          /\ NoOperand(stream[2])) =>
         result = Err(UnableToParse("Unable to parse"))

\* "1+*2": the * stands where the right operand of + is due.
C8_Witness ==
  /\ pc = "parsed"
  /\ stream = <<Num(1), Add, Multiply, Num(2), EOF>>
  /\ result = Err(UnableToParse("Unable to parse"))
  /\ current_token = Multiply

\* C9 (as the specification states it): when the tokenizer is exhausted
\* after a complete expression, parse returns Ok.
C9_ExhaustionIsEndOfInput ==
  (pc = "parsed" /\ Complete(stream)) => result.ok

\* C9 (amended): when the tokenizer is exhausted after a complete
\* expression, get_next_token fails and parse returns
\* Err(InvalidOperator("Invalid character")) with the last token still
\* current; an Ok parse stops at a token the tokenizer delivered.
C9_ExhaustionIsError ==
  pc = "parsed" =>
    /\ Complete(stream) =>
         /\ result = Err(InvalidOperator("Invalid character", NoToken))
         /\ current_token = stream[Len(stream)]
    /\ result.ok =>
         /\ tokenizer.pos <= Len(stream) + 1
         /\ current_token = stream[tokenizer.pos - 1]
         /\ get_oper_prec(current_token) = DefaultZero

\* "1+2" with no EOF token behind it.
C9_Witness ==
  /\ pc = "parsed"
  /\ stream = <<Num(1), Add, Num(2)>>
  /\ ~result.ok
  /\ current_token = Num(2)

\* C10: an implicit product is one operand: a op (B)(C) is op(a,
\* Multiply(B, C)) for every binary operator, -(B)(C) is
\* Negative(Multiply(B, C)), and (A)(B)(C) is Multiply(A, Multiply(B, C)).
C10_ImplicitProductIsPrimary ==
  pc = "parsed" =>
    \A b1, b2 \in GroupBodies :
      LET prod == Bin("Multiply", BodyAst(b1), BodyAst(b2))
          tail == Group(b1) \o Group(b2) \o <<EOF>> IN
      /\ stream[1] = Num(1) =>
           \A op \in BinOps :
             stream = <<Num(1), op>> \o tail =>
               result = Ok(Bin(NodeKind(op), Number(1), prod))
      /\ stream = <<Substract>> \o tail => result = Ok(Neg(prod))
      /\ stream[1] = LeftParen =>
           \A a \in GroupBodies :
             stream = Group(a) \o tail =>
               result = Ok(Bin("Multiply", BodyAst(a), prod))

\* "1/(2)(1)" is Divide(1, Multiply(2, 1)).
C10_Witness ==
  /\ pc = "parsed"
  /\ stream = <<Num(1), Divide>> \o Group(<<Num(2)>>) \o Group(<<Num(1)>>)
                \o <<EOF>>
  /\ result = Ok(Bin("Divide", Number(1),
                     Bin("Multiply", Number(2), Number(1))))

====
